---- MODULE Spec2Model ----
(***************************************************************************)
(* Model of notebooks/demo_InDomain_H_ads.ipynb: the H-adsorption          *)
(* relaxation workflow (relaxation driver, post-processing to a            *)
(* min-energy table, adsorption-site classification, slab metadata).       *)
(*                                                                         *)
(* Lengths, distances, energies and forces are scaled integers; a          *)
(* tolerance is an integer percentage, so every comparison of the source   *)
(* is made in exact arithmetic.  Names and str(slab) are sequences of      *)
(* tokens.                                                                 *)
(***************************************************************************)
EXTENDS Integers, Sequences, FiniteSets, TLC

VARIABLES
    \* the pure helpers, each with its arguments and its return value
    nn_in,      \* nearest_idx: [dists, surf_idx, tol]
    nn_out,
    tile_in,    \* tile_substrate: [tags, a_len, b_len, min_ab]
    tile_out,
    slab_str,   \* shift_top: str(slab)
    shift_out,
    \* the workflow (cells 3 and 4)
    db,         \* the bulk database: the src_id of each entry, in order
    gen,        \* what Slab / AdsorbateSlabConfig generated so far, per input
    fs,         \* OUT_ROOT: slab directory -> (file name -> content)
    dirScan,    \* the order in which OUT_ROOT lists its entries
    fileScan,   \* the order in which a slab directory lists its entries
    pc,         \* the notebook's position
    bi, si, ci, \* the relaxation loops' indices (bulk, slab, configuration)
    runs,       \* (bid, sidx, cidx) -> number of BFGS runs in this pass
    todo,       \* the slab directories the post-processing loop has yet to visit
    records,    \* cell 4's list of result records
    df_min,     \* the result table
    pass,       \* the passes of the workflow finished so far, each
                \* [clean: the directory was empty when it began, table]
    \* the site classification (cell 5)
    frames,     \* traj_file -> the final frame read from it
    site_i,     \* the row df_min.apply is at
    site_res    \* the series site_info returned so far

pureVars  == <<nn_in, nn_out, tile_in, tile_out, slab_str, shift_out>>
nnVars    == <<nn_in, nn_out>>
tileVars  == <<tile_in, tile_out>>
shiftVars == <<slab_str, shift_out>>
loopVars  == <<bi, si, ci>>
wfVars    == <<db, gen, fs, dirScan, fileScan, bi, si, ci, runs, todo, records, pass>>
siteVars  == <<frames, site_i, site_res>>
vars == <<nn_in, nn_out, tile_in, tile_out, slab_str, shift_out,
          db, gen, fs, dirScan, fileScan, pc, bi, si, ci, runs, todo, records,
          df_min, pass, frames, site_i, site_res>>

Pending == [pending |-> TRUE]
EmptyFn == [x \in {} |-> 0]

\* The parts of the state a specification does not use
NearestIdle == nn_in = Pending /\ nn_out = Pending
TileIdle    == tile_in = Pending /\ tile_out = Pending
ShiftIdle   == slab_str = <<>> /\ shift_out = Pending
SiteIdle    == frames = EmptyFn /\ site_i = 0 /\ site_res = <<>>
WorkflowIdle ==
    /\ db = <<>> /\ gen = [slabs |-> EmptyFn, configs |-> EmptyFn]
    /\ fs = EmptyFn /\ dirScan = <<>> /\ fileScan = <<>>
    /\ bi = 0 /\ si = 0 /\ ci = 0 /\ runs = EmptyFn
    /\ todo = <<>> /\ records = <<>> /\ pass = <<>>

----------------------------------------------------------------------------
(* General helpers *)

Min(S) == CHOOSE x \in S : \A y \in S : x <= y
Max(S) == CHOOSE x \in S : \A y \in S : x >= y

Range(s) == {s[i] : i \in DOMAIN s}

SeqsUpTo(S, n) == UNION {[1..k -> S] : k \in 0..n}

\* math.ceil(m / a) for integers m and a > 0
Ceil(m, a) == -((-m) \div a)

\* n copies of s, one after the other
Repeat(s, n) == [k \in 1..(n * Len(s)) |-> s[((k - 1) % Len(s)) + 1]]

----------------------------------------------------------------------------
(* nearest_idx: the surface atoms within (1 + tol) * d_min of the adsorbate *)

MaxSurf == 5
Dists == {0, 10, 11, 12}
DefaultTolPct == 10
TolPcts == {0, DefaultTolPct, 20}

\* sorted(..., key=lambda x: x[0]): a stable insertion by the first component
RECURSIVE SortedByDist(_)
Insert(p, s) ==
    LET n == Max({k \in 0..Len(s) : \A m \in 1..k : s[m][1] <= p[1]})
    IN SubSeq(s, 1, n) \o <<p>> \o SubSeq(s, n + 1, Len(s))
SortedByDist(s) ==
    IF s = <<>> THEN <<>>
    ELSE Insert(s[Len(s)], SortedByDist(SubSeq(s, 1, Len(s) - 1)))

\* d <= cutoff, with cutoff = pairs[0][0] * (1 + tol)
WithinCutoffStrict(d, dmin, tol) == 100 * d < dmin * (100 + tol)
WithinCutoff(d, dmin, tol) == 100 * d <= dmin * (100 + tol)

nearest_idx(dists, surf_idx, tol) ==
    LET zipped == [k \in 1..Len(surf_idx) |-> <<dists[k], surf_idx[k]>>]
        pairs == SortedByDist(SelectSeq(zipped, LAMBDA p : p[1] > 0))
    IN IF pairs = <<>> THEN <<>>
       ELSE LET kept == SelectSeq(pairs, LAMBDA p : WithinCutoff(p[1], pairs[1][1], tol))
            IN [k \in 1..Len(kept) |-> kept[k][2]]

SurfOrders(n) == {[k \in 1..n |-> k], [k \in 1..n |-> n + 1 - k]}

InitNearest ==
    /\ \E n \in 0..MaxSurf : \E d \in [1..n -> Dists] : \E s \in SurfOrders(n) :
         \E t \in TolPcts :
            nn_in = [dists |-> d, surf_idx |-> s, tol |-> t]
    /\ nn_out = Pending
    /\ TileIdle /\ ShiftIdle /\ SiteIdle /\ WorkflowIdle
    /\ pc = "call" /\ df_min = <<>>

CallNearest ==
    /\ nn_out = Pending
    /\ nn_out' = [pending |-> FALSE,
                  near |-> nearest_idx(nn_in.dists, nn_in.surf_idx, nn_in.tol)]
    /\ UNCHANGED <<nn_in, tileVars, shiftVars, wfVars, siteVars, pc, df_min>>

NextNearest == CallNearest

SpecNearest == InitNearest /\ [][NextNearest]_vars

\* The distance of surface atom j from the adsorbate, as passed to the call
DistOf(j) == nn_in.dists[CHOOSE k \in 1..Len(nn_in.surf_idx) : nn_in.surf_idx[k] = j]
PositiveDists == {nn_in.dists[k] : k \in {m \in 1..Len(nn_in.dists) : nn_in.dists[m] > 0}}

----------------------------------------------------------------------------
(* tile_substrate: repeat the substrate until both in-plane lengths reach  *)
(* min_ab, then re-attach the adsorbate                                    *)

MaxLen == 17
DefaultMinAb == 8
MinAbs == {5, DefaultMinAb, 12}
TagSeqs == {<<0, 1, 2>>, <<1, 2>>, <<2, 1, 0, 1>>, <<1, 1>>, <<1, 2, 2>>}

FactorFloor(min_ab, len) == IF 1 >= min_ab \div len THEN 1 ELSE min_ab \div len
\* max(1, math.ceil(min_ab / len))
Factor(min_ab, len) == IF 1 >= Ceil(min_ab, len) THEN 1 ELSE Ceil(min_ab, len)

\* a zero length makes min_ab / len infinite and math.ceil raise
tile_substrate(tags, a_len, b_len, min_ab) ==
    IF a_len = 0 \/ b_len = 0
    THEN [raised |-> TRUE, repeat |-> <<0, 0, 0>>, tags |-> <<>>, cell |-> <<0, 0>>]
    ELSE LET sub == SelectSeq(tags, LAMBDA t : t # 2)
             ads == SelectSeq(tags, LAMBDA t : t = 2)
             na == Factor(min_ab, a_len)
             nb == Factor(min_ab, b_len)
         IN [raised |-> FALSE,
             repeat |-> <<na, nb, 1>>,
             tags |-> Repeat(sub, na * nb * 1) \o ads,
             cell |-> <<na * a_len, nb * b_len>>]

InitTile ==
    /\ \E t \in TagSeqs : \E a \in 1..MaxLen : \E b \in 1..MaxLen : \E m \in MinAbs :
         tile_in = [tags |-> t, a_len |-> a, b_len |-> b, min_ab |-> m]
    /\ tile_out = Pending
    /\ NearestIdle /\ ShiftIdle /\ SiteIdle /\ WorkflowIdle
    /\ pc = "call" /\ df_min = <<>>

CallTile ==
    /\ tile_out = Pending
    /\ tile_out' = [pending |-> FALSE,
                    res |-> tile_substrate(tile_in.tags, tile_in.a_len,
                                           tile_in.b_len, tile_in.min_ab)]
    /\ UNCHANGED <<tile_in, nnVars, shiftVars, wfVars, siteVars, pc, df_min>>

NextTile == CallTile

SpecTile == InitTile /\ [][NextTile]_vars

CountTag(tags, t) == Cardinality({k \in 1..Len(tags) : tags[k] = t})
LeastFactor(n, len, min_ab) ==
    /\ n >= 1
    /\ n * len >= min_ab
    /\ n > 1 => (n - 1) * len < min_ab

\* C7: for positive in-plane lengths the repeat factors are the least
\* integers n >= 1 with n * length >= min_ab, exactly (1, 1) with the substrate
\* not enlarged when both lengths already reach min_ab; the third axis is
\* never repeated and the adsorbate atoms are attached once, untiled.
C7_TilingFactorsMinimal ==
    tile_out # Pending =>
        LET r == tile_out.res
            sub == SelectSeq(tile_in.tags, LAMBDA t : t # 2)
            ads == SelectSeq(tile_in.tags, LAMBDA t : t = 2)
        IN /\ ~r.raised
           /\ LeastFactor(r.repeat[1], tile_in.a_len, tile_in.min_ab)
           /\ LeastFactor(r.repeat[2], tile_in.b_len, tile_in.min_ab)
           /\ r.repeat[3] = 1
           /\ (tile_in.a_len >= tile_in.min_ab /\ tile_in.b_len >= tile_in.min_ab)
                => (r.repeat = <<1, 1, 1>> /\ r.tags = sub \o ads)
           /\ CountTag(r.tags, 2) = CountTag(tile_in.tags, 2)
           /\ Len(r.tags) = r.repeat[1] * r.repeat[2] * Len(sub) + Len(ads)
           /\ SubSeq(r.tags, Len(r.tags) - Len(ads) + 1, Len(r.tags)) = ads

\* A 3 x 5 substrate under the default minimum is repeated 3 x 2 times
C7_Witness ==
    /\ tile_out # Pending
    /\ tile_in.min_ab = DefaultMinAb
    /\ tile_in.a_len = 3 /\ tile_in.b_len = 5
    /\ tile_in.tags = <<0, 1, 2>>
    /\ tile_out.res.repeat = <<3, 2, 1>>
    /\ Len(tile_out.res.tags) = 13

----------------------------------------------------------------------------
(* shift_top: the shift and the top flag parsed from str(slab) with        *)
(*   \([^)]*\),\s*([-+]?\d*\.?\d+),\s*(True|False)                         *)
(* A string is a sequence of tokens: one character each, and the words     *)
(* True and False.                                                         *)

MaxNumLen == 3
DecDigits == <<"0", "1", "2", "3", "4", "5", "6", "7", "8", "9">>
Digits == Range(DecDigits)
DigitVal(c) == (CHOOSE k \in 1..10 : DecDigits[k] = c) - 1
NumTokens == {"-", "0", "3", ".", "e"}

NaN == [nan |-> TRUE, mant |-> 0, exp |-> 0]
NoFlag == "nan"

RECURSIVE DigitsVal(_)
DigitsVal(w) == IF w = <<>> THEN 0
                ELSE 10 * DigitsVal(SubSeq(w, 1, Len(w) - 1)) + DigitVal(w[Len(w)])

RECURSIVE Normal(_, _)
Normal(mant, exp) == IF exp > 0 /\ mant % 10 = 0 THEN Normal(mant \div 10, exp - 1)
                     ELSE [nan |-> FALSE, mant |-> mant, exp |-> exp]

\* float(text): the decimal value mant * 10^-exp, or ValueError for a text
\* that is no decimal literal (sign, digits, at most one point, a digit on
\* at least one side of it)
float(w) ==
    LET neg == Len(w) > 0 /\ w[1] = "-"
        body == IF Len(w) > 0 /\ w[1] \in {"-", "+"} THEN Tail(w) ELSE w
        dots == {k \in 1..Len(body) : body[k] = "."}
        ok == /\ \A k \in 1..Len(body) : body[k] \in Digits \cup {"."}
              /\ Cardinality(dots) <= 1
              /\ \E k \in 1..Len(body) : body[k] \in Digits
        digs == SelectSeq(body, LAMBDA c : c # ".")
        exp == IF dots = {} THEN 0 ELSE Len(body) - Min(dots)
    IN IF ~ok THEN [raised |-> TRUE, val |-> NaN]
       ELSE [raised |-> FALSE,
             val |-> Normal((IF neg THEN -1 ELSE 1) * DigitsVal(digs), exp)]

\* [-+]?\d*\.?\d* : a number pattern that also accepts "", "-", "." and "3."
IsNumStrLoose(w) ==
    LET body == IF Len(w) > 0 /\ w[1] \in {"-", "+"} THEN Tail(w) ELSE w
    IN /\ \A k \in 1..Len(body) : body[k] \in Digits \cup {"."}
       /\ Cardinality({k \in 1..Len(body) : body[k] = "."}) <= 1

\* [-+]?\d*\.?\d+ matched against the whole of w
IsNumStr(w) ==
    LET body == IF Len(w) > 0 /\ w[1] \in {"-", "+"} THEN Tail(w) ELSE w
    IN /\ Len(body) >= 1
       /\ \A k \in 1..Len(body) : body[k] \in Digits \cup {"."}
       /\ Cardinality({k \in 1..Len(body) : body[k] = "."}) <= 1
       /\ body[Len(body)] \in Digits

\* the first index >= from holding token c, or 0
FirstOf(s, from, c) ==
    LET S == {k \in from..Len(s) : s[k] = c} IN IF S = {} THEN 0 ELSE Min(S)

\* \s* : the first index >= from that holds no blank (Len(s) + 1 at the end)
SkipSpaces(s, from) == Min({k \in from..(Len(s) + 1) : k = Len(s) + 1 \/ s[k] # " "})

NoMatch == [ok |-> FALSE, num |-> <<>>, flag |-> NoFlag]

\* the pattern matched with its "(" at index i: [^)]* ends at the first ")",
\* the number runs to the next ",", blanks are skipped after each ","
MatchAt(s, i) ==
    IF s[i] # "(" THEN NoMatch
    ELSE LET p == FirstOf(s, i + 1, ")")
         IN IF p = 0 \/ p + 1 > Len(s) \/ s[p + 1] # "," THEN NoMatch
            ELSE LET q == SkipSpaces(s, p + 2)
                     e == FirstOf(s, q, ",")
                 IN IF e = 0 \/ ~IsNumStr(SubSeq(s, q, e - 1)) THEN NoMatch
                    ELSE LET r == SkipSpaces(s, e + 1)
                         IN IF r > Len(s) \/ s[r] \notin {"True", "False"} THEN NoMatch
                            ELSE [ok |-> TRUE, num |-> SubSeq(s, q, e - 1), flag |-> s[r]]

\* re.search: the match at the leftmost index that has one
search(s) ==
    LET starts == {i \in 1..Len(s) : MatchAt(s, i).ok}
    IN IF starts = {} THEN NoMatch ELSE MatchAt(s, Min(starts))

shift_top(s) ==
    LET m == search(s)
    IN IF ~m.ok THEN [raised |-> FALSE, shift |-> NaN, top |-> NoFlag]
       ELSE LET f == float(m.num)
            IN IF f.raised THEN [raised |-> TRUE, shift |-> NaN, top |-> NoFlag]
               ELSE [raised |-> FALSE, shift |-> f.val, top |-> m.flag]

Prefixes == {<<>>, <<"(">>, <<"(", "x", "(", "3">>, <<"x">>}
Closers  == {<<")">>, <<>>}
Commas   == {<<",">>, <<",", " ">>, <<" ", ",">>}
Flags    == {<<"True">>, <<"False", ")">>, <<"x">>}
AnyTokens == {"(", ")", ",", " ", "3", ".", "True", "x"}

SlabStrings ==
    {a \o c \o k1 \o n \o k2 \o f :
        a \in Prefixes, c \in Closers, k1 \in Commas,
        n \in SeqsUpTo(NumTokens, MaxNumLen), k2 \in Commas, f \in Flags}
    \cup SeqsUpTo(AnyTokens, MaxNumLen)

InitShift ==
    /\ slab_str \in SlabStrings
    /\ shift_out = Pending
    /\ NearestIdle /\ TileIdle /\ SiteIdle /\ WorkflowIdle
    /\ pc = "call" /\ df_min = <<>>

CallShiftTop ==
    /\ shift_out = Pending
    /\ shift_out' = [pending |-> FALSE, res |-> shift_top(slab_str)]
    /\ UNCHANGED <<slab_str, nnVars, tileVars, wfVars, siteVars, pc, df_min>>

NextShift == CallShiftTop

SpecShift == InitShift /\ [][NextShift]_vars

\* The places where str(slab) holds "(" ... ")" "," number "," True|False:
\* <<i, p, q, e, r>> with the group at i..p, the number at q..e-1, the flag at r
Occurrences(s) ==
    LET n == Len(s)
        Blank(a, b) == \A k \in a..b : s[k] = " "
        groups == {g \in (1..n) \X (1..n) :
                      /\ g[1] < g[2] /\ g[2] < n
                      /\ s[g[1]] = "(" /\ s[g[2]] = ")" /\ s[g[2] + 1] = ","
                      /\ \A k \in (g[1] + 1)..(g[2] - 1) : s[k] # ")"}
        NumStarts(g) == {q \in (g[2] + 2)..n : Blank(g[2] + 2, q - 1) /\ s[q] # " "}
        NumEnds(q) == {e \in (q + 1)..n : s[e] = "," /\ IsNumStr(SubSeq(s, q, e - 1))}
        FlagAt(e) == {r \in (e + 1)..n : Blank(e + 1, r - 1) /\ s[r] \in {"True", "False"}}
    IN UNION {UNION {UNION {{<<g[1], g[2], q, e, r>> : r \in FlagAt(e)} :
                            e \in NumEnds(q)} :
                     q \in NumStarts(g)} :
              g \in groups}

\* C8: shift_top never raises; when str(slab) holds a parenthesised group
\* followed by a number and then True or False it returns that number and
\* that flag (those of the leftmost occurrence), and (NaN, NaN) for every
\* other string.
C8_ShiftTopTotal ==
    shift_out # Pending =>
        LET r == shift_out.res
            occ == Occurrences(slab_str)
        IN /\ ~r.raised
           /\ occ = {} => (r.shift = NaN /\ r.top = NoFlag)
           /\ occ # {} =>
                LET t == CHOOSE u \in occ : \A v \in occ : u[1] <= v[1]
                IN /\ r.shift = float(SubSeq(slab_str, t[3], t[4] - 1)).val
                   /\ ~r.shift.nan
                   /\ r.top = slab_str[t[5]]

\* "(x(3), 0.3, True" parses to (0.3, True)
C8_Witness ==
    /\ shift_out # Pending
    /\ slab_str = <<"(", "x", "(", "3", ")", ",", " ", "0", ".", "3", ",", " ", "True">>
    /\ shift_out.res = [raised |-> FALSE,
                        shift |-> [nan |-> FALSE, mant |-> 3, exp |-> 1],
                        top |-> "True"]

----------------------------------------------------------------------------
(* Names: directories and files of OUT_ROOT, and the record key *)

B1 == <<"mp-1">>
B2 == <<"mp-2">>
B3 == <<"mp-3">>

\* str(n) of a non-negative integer
RECURSIVE str(_)
str(n) == IF n < 10 THEN <<DecDigits[n + 1]>>
          ELSE str(n \div 10) \o <<DecDigits[(n % 10) + 1]>>

\* int(text): ValueError unless the text is a run of decimal digits
int(w) == IF Len(w) > 0 /\ \A k \in 1..Len(w) : w[k] \in Digits
          THEN [raised |-> FALSE, val |-> DigitsVal(w)]
          ELSE [raised |-> TRUE, val |-> 0]

\* text.split('_')
RECURSIVE split(_)
split(w) == LET k == FirstOf(w, 1, "_")
            IN IF k = 0 THEN <<w>>
               ELSE <<SubSeq(w, 1, k - 1)>> \o split(SubSeq(w, k + 1, Len(w)))

ORIENT == <<2, 2, 1>>
\* ''.join(map(str, ORIENT))
orient_tag == str(ORIENT[1]) \o str(ORIENT[2]) \o str(ORIENT[3])

\* f'{bid}_H_{sidx}', under OUT_ROOT
DirName(bid, sidx) == bid \o <<"_", "H", "_">> \o str(sidx)
\* f'config_{cidx}.traj' and f'config_{cidx}.log'
TrajName(cidx) == <<"config", "_">> \o str(cidx) \o <<".traj">>
LogName(cidx)  == <<"config", "_">> \o str(cidx) \o <<".log">>
\* str(traj_file)
PathOf(d, f) == d \o <<"/">> \o f

----------------------------------------------------------------------------
(* The output directory *)

Put(f, k, v) == [x \in DOMAIN f \cup {k} |-> IF x = k THEN v ELSE f[x]]

\* os.makedirs(out_dir, exist_ok=True): an existing directory is kept as it is
makedirs(tree, d) == IF d \in DOMAIN tree THEN tree ELSE Put(tree, d, EmptyFn)

\* a file opened for writing replaces the file of that name
WriteFile(tree, d, f, content) == [tree EXCEPT ![d] = Put(tree[d], f, content)]

Reverse(q) == [k \in 1..Len(q) |-> q[Len(q) + 1 - k]]
ScanOrders(q) == {q, Reverse(q)}

\* Path(OUT_ROOT).glob('*_H_*'), in the directory's listing order
MatchesSlabGlob(name) ==
    \E k \in 1..(Len(name) - 2) : name[k] = "_" /\ name[k + 1] = "H" /\ name[k + 2] = "_"
GlobSlabDirs(tree, order) ==
    SelectSeq(order, LAMBDA d : d \in DOMAIN tree /\ MatchesSlabGlob(d))

\* slab_dir.glob('*.traj'), in the directory's listing order
GlobTraj(files, order) ==
    SelectSeq(order, LAMBDA f : f \in DOMAIN files /\ f[Len(f)] = ".traj")

----------------------------------------------------------------------------
(* Cell 3: the relaxation driver *)

MaxSlabs == 1
MaxConfigs == 1
FMax == 5
Steps == 100

Anomalies == {"none", "dissociated", "desorbed", "surface_changed", "intercalated"}

\* A trajectory file as post-processing reads it: the final frame's energy and
\* per-atom force norms, DetectTrajAnomaly's four verdicts on its first and
\* last frames, and the number of frames
Traj(E, F, a, n) ==
    [E |-> E, F |-> F, nframes |-> n,
     dissociated |-> a = "dissociated", desorbed |-> a = "desorbed",
     surface_changed |-> a = "surface_changed", intercalated |-> a = "intercalated"]

\* The configurations AdsorbateSlabConfig may return: for each, the energy
\* the relaxation ends at, the anomaly its trajectory shows, and the number
\* of optimizer steps after which the forces are below fmax
ConfigKinds ==
    { [E |-> -12, anom |-> "none",     needed |-> 37],
      [E |-> -15, anom |-> "none",     needed |-> Steps + 1],
      [E |-> -18, anom |-> "desorbed", needed |-> Steps] }

\* the per-atom force norms the calculator returns after n steps
ForcesAt(cfg, n) == IF n >= cfg.needed THEN <<3, 4>> ELSE <<7, 2>>

\* Optimizer.converged: the largest force norm is below fmax
converged(F) == Max(Range(F)) < FMax

\* the first step count at which the loop of Optimizer.irun stops
StopsAt(cfg, cap) ==
    CHOOSE n \in 0..cap :
        /\ converged(ForcesAt(cfg, n)) \/ n = cap
        /\ \A m \in 0..(n - 1) : ~converged(ForcesAt(cfg, m))

IrunNoCap(cfg) == StopsAt(cfg, Steps + 1)
\* BFGS.run(fmax, steps): steps are taken while the forces are not converged
\* and fewer than `steps` were taken; the number of steps taken
Irun(cfg) == StopsAt(cfg, Steps)

\* the step counts of the runs, one per configuration kind
RunLengths == [cfg \in ConfigKinds |-> Irun(cfg)]

\* what one BFGS(...).run(fmax=0.05, steps=100) writes
BFGSRun(cfg) ==
    [traj |-> Traj(cfg.E, ForcesAt(cfg, RunLengths[cfg]), cfg.anom, RunLengths[cfg] + 1),
     log  |-> [nsteps |-> RunLengths[cfg],
               converged |-> converged(ForcesAt(cfg, RunLengths[cfg]))]]

\* bulk_ids = [b['src_id'] for b in bulks][:2]
bulk_ids == SubSeq(db, 1, IF Len(db) < 2 THEN Len(db) ELSE 2)

\* The generators are functions of their input: the first call for an input
\* fixes what every later call for it returns
SlabCounts(bid) ==
    IF bid \in DOMAIN gen.slabs THEN {gen.slabs[bid]} ELSE 0..MaxSlabs
ConfigLists(bid, sidx) ==
    IF <<bid, sidx>> \in DOMAIN gen.configs THEN {gen.configs[<<bid, sidx>>]}
    ELSE SeqsUpTo(ConfigKinds, MaxConfigs)

RelaxBegin ==
    /\ pc = "ready"
    /\ pc' = "bulks"
    /\ bi' = 1 /\ si' = 0 /\ ci' = 0
    /\ runs' = EmptyFn
    /\ pass' = Append(pass, [clean |-> fs = EmptyFn, table |-> <<>>])
    /\ UNCHANGED <<pureVars, siteVars, db, gen, fs, dirScan, fileScan, todo, records, df_min>>

\* for bid in bulk_ids: slabs = Slab.from_bulk_get_specific_millers(...)
BulkStep ==
    /\ pc = "bulks"
    /\ IF bi > Len(bulk_ids)
       THEN /\ pc' = "relaxed"
            /\ UNCHANGED <<gen, si>>
       ELSE /\ \E n \in SlabCounts(bulk_ids[bi]) :
                 gen' = [gen EXCEPT !.slabs = Put(gen.slabs, bulk_ids[bi], n)]
            /\ si' = 0
            /\ pc' = "slabs"
    /\ UNCHANGED <<pureVars, siteVars, db, fs, dirScan, fileScan, bi, ci, runs, todo, records, df_min, pass>>

\* for sidx, slab in enumerate(slabs): configs = [...]; os.makedirs(out_dir)
SlabStep ==
    /\ pc = "slabs"
    /\ LET bid == bulk_ids[bi]
       IN IF si >= gen.slabs[bid]
          THEN /\ bi' = bi + 1
               /\ pc' = "bulks"
               /\ UNCHANGED <<gen, fs, ci>>
          ELSE /\ \E cfgs \in ConfigLists(bid, si) :
                    gen' = [gen EXCEPT !.configs = Put(gen.configs, <<bid, si>>, cfgs)]
               /\ fs' = makedirs(fs, DirName(bid, si))
               /\ ci' = 0
               /\ pc' = "configs"
               /\ UNCHANGED bi
    /\ UNCHANGED <<pureVars, siteVars, db, dirScan, fileScan, si, runs, todo, records, df_min, pass>>

\* for cidx, atoms in enumerate(configs): BFGS(atoms, ...).run(fmax=0.05, steps=100)
ConfigStep ==
    /\ pc = "configs"
    /\ LET bid == bulk_ids[bi]
           cfgs == gen.configs[<<bid, si>>]
       IN IF ci >= Len(cfgs)
          THEN /\ si' = si + 1
               /\ pc' = "slabs"
               /\ UNCHANGED <<fs, ci, runs>>
          ELSE \E out \in {BFGSRun(cfgs[ci + 1])}, d \in {DirName(bid, si)},
                  t \in {<<bid, si, ci>>} :
                  /\ fs' = WriteFile(WriteFile(fs, d, TrajName(ci), out.traj),
                                     d, LogName(ci), out.log)
                  /\ runs' = Put(runs, t, IF t \in DOMAIN runs THEN runs[t] + 1 ELSE 1)
                  /\ ci' = ci + 1
                  /\ UNCHANGED <<si, pc>>
    /\ UNCHANGED <<pureVars, siteVars, db, gen, dirScan, fileScan, bi, todo, records, df_min, pass>>

----------------------------------------------------------------------------
(* Cell 4: post-processing to the min-energy table *)

AnyButIntercalated(t) == t.dissociated \/ t.desorbed \/ t.surface_changed
\* any([det.is_adsorbate_dissociated(), det.is_adsorbate_desorbed(),
\*      det.has_surface_changed(), det.is_adsorbate_intercalated()])
anomalous(t) == t.dissociated \/ t.desorbed \/ t.surface_changed \/ t.intercalated

\* the list `good` of one slab directory
GoodOf(d, files, order) ==
    LET kept == SelectSeq(GlobTraj(files, order), LAMBDA f : ~anomalous(files[f]))
    IN [k \in 1..Len(kept) |->
          [E |-> files[kept[k]].E, F |-> files[kept[k]].F, file |-> PathOf(d, kept[k])]]

BestLast(good) == good[Len(good)]
\* min(good, key=lambda d: d['E']): the first entry of least energy
Best(good) == good[Min({k \in 1..Len(good) : \A m \in 1..Len(good) : good[k].E <= good[m].E})]

\* np.linalg.norm(best['F'], axis=1).max()
MaxForce(F) == Max(Range(F))

RaiseOnEmpty(recs) == [raised |-> TRUE, records |-> recs]
\* if good: ... (a directory with no surviving trajectory adds no record)
SkipEmpty(recs) == [raised |-> FALSE, records |-> recs]

\* One iteration of the loop over slab directories, from the parts of the
\* directory's name and its list `good`: the records after it, or raised when
\* the name does not unpack into three parts or int() fails
ProcessSlabDir(recs, parts, good) ==
    IF Len(parts) # 3 THEN [raised |-> TRUE, records |-> recs]
    ELSE IF good = <<>> THEN SkipEmpty(recs)
    ELSE IF int(parts[3]).raised THEN [raised |-> TRUE, records |-> recs]
    ELSE [raised |-> FALSE,
          records |-> Append(recs,
             [key |-> parts[1] \o <<"_", "H", "_">> \o parts[3] \o <<"_">> \o orient_tag,
              bulk_id |-> parts[1],
              slab_index |-> int(parts[3]).val,
              orientation |-> orient_tag, adsorbate |-> "H",
              min_E_ml |-> Best(good).E, max_F_ml |-> MaxForce(Best(good).F),
              traj_file |-> Best(good).file])]

KeepRecords == records
\* records = []
FreshRecords == <<>>

PostBegin ==
    /\ pc = "relaxed"
    /\ records' = FreshRecords
    /\ todo' = GlobSlabDirs(fs, dirScan)
    /\ pc' = "post"
    /\ UNCHANGED <<pureVars, siteVars, db, gen, fs, dirScan, fileScan, loopVars, runs, df_min, pass>>

PostSlabDir ==
    /\ pc = "post"
    /\ todo # <<>>
    /\ \E parts \in {split(Head(todo))},
          good \in {GoodOf(Head(todo), fs[Head(todo)], fileScan)} :
       \E r \in {ProcessSlabDir(records, parts, good)} :
          IF r.raised
          THEN pc' = "aborted" /\ UNCHANGED records
          ELSE records' = r.records /\ UNCHANGED pc
    /\ todo' = Tail(todo)
    /\ UNCHANGED <<pureVars, siteVars, db, gen, fs, dirScan, fileScan, loopVars, runs, df_min, pass>>

\* df_min = pd.DataFrame(records)
PostEnd ==
    /\ pc = "post"
    /\ todo = <<>>
    /\ df_min' = records
    /\ pass' = [pass EXCEPT ![Len(pass)].table = records]
    /\ pc' = "done"
    /\ UNCHANGED <<pureVars, siteVars, db, gen, fs, dirScan, fileScan, loopVars, runs, todo, records>>

----------------------------------------------------------------------------
(* Running the notebook again, on the directory as it is or on a cleared one *)

RerunInPlace ==
    /\ pc = "done"
    /\ Len(pass) = 1
    /\ pc' = "ready"
    /\ UNCHANGED <<pureVars, siteVars, db, gen, fs, dirScan, fileScan, loopVars, runs, todo, records,
                   df_min, pass>>

RerunCleared ==
    /\ pc = "done"
    /\ Len(pass) = 1
    /\ fs' = EmptyFn
    /\ pc' = "ready"
    /\ UNCHANGED <<pureVars, siteVars, db, gen, dirScan, fileScan, loopVars, runs, todo, records,
                   df_min, pass>>

----------------------------------------------------------------------------
(* The workflow on a directory that earlier runs may have left files in *)

DirUniverse ==
    [k \in 1..(2 * MaxSlabs) |->
        DirName(IF k <= MaxSlabs THEN B1 ELSE B2, (k - 1) % MaxSlabs)]
FileUniverse == [k \in 1..(MaxConfigs + 1) |-> TrajName(k - 1)]

StaleEnergies == {-20, -12}
StaleTraj == {Traj(e, <<1, 2>>, a, 2) : e \in StaleEnergies, a \in Anomalies}
StaleFiles ==
    {EmptyFn} \cup {Put(EmptyFn, f, t) : f \in Range(FileUniverse), t \in StaleTraj}
StaleTrees ==
    {EmptyFn} \cup {Put(EmptyFn, d, files) :
                       d \in {DirName(B1, 0), DirName(B2, 0)}, files \in StaleFiles}

Init ==
    /\ NearestIdle /\ TileIdle /\ ShiftIdle /\ SiteIdle
    /\ db = <<B1>>
    /\ gen = [slabs |-> EmptyFn, configs |-> EmptyFn]
    /\ fs \in StaleTrees
    /\ dirScan \in ScanOrders(DirUniverse)
    /\ fileScan \in ScanOrders(FileUniverse)
    /\ pc = "ready"
    /\ bi = 0 /\ si = 0 /\ ci = 0
    /\ runs = EmptyFn
    /\ todo = <<>> /\ records = <<>> /\ df_min = <<>> /\ pass = <<>>

Next ==
    \/ RelaxBegin \/ BulkStep \/ SlabStep \/ ConfigStep
    \/ PostBegin \/ PostSlabDir \/ PostEnd
    \/ RerunInPlace \/ RerunCleared

Spec == Init /\ [][Next]_vars

\* What the directory holds, stated without the loop
IsTraj(f) == f[Len(f)] = ".traj"
TrajFiles(d) == {f \in DOMAIN fs[d] : IsTraj(f)}
Flagged(t) == \E a \in Anomalies \ {"none"} : t[a]
GoodFiles(d) == {f \in TrajFiles(d) : ~Flagged(fs[d][f])}
KeyOf(d) == d \o <<"_">> \o orient_tag
Visited(d) == d \in DOMAIN fs /\ (pc = "done" \/ (pc = "post" /\ d \notin Range(todo)))
RecordsOf(d) == {k \in 1..Len(records) : records[k].key = KeyOf(d)}

\* C1: a trajectory for which any of the four anomaly checks is true is never
\* the trajectory a result record names, whatever its final energy.
C1_AnomalousNeverSelected ==
    pc \in {"post", "done"} =>
        \A d \in DOMAIN fs : \A f \in TrajFiles(d) :
            Flagged(fs[d][f]) =>
                \A k \in 1..Len(records) : records[k].traj_file # PathOf(d, f)

\* A visited directory whose anomalous trajectory lies below every surviving
\* one, with a record for the directory
C1_Witness ==
    /\ pc = "done"
    /\ \E d \in DOMAIN fs : \E f \in TrajFiles(d) :
          /\ fs[d][f].intercalated
          /\ GoodFiles(d) # {}
          /\ \A g \in GoodFiles(d) : fs[d][f].E < fs[d][g].E
          /\ RecordsOf(d) # {}

\* C2: for a slab directory with a non-anomalous trajectory, the record's
\* min_E_ml is the least final energy over exactly the non-anomalous
\* trajectories, traj_file names one of them with that energy, and max_F_ml
\* is the largest force norm of that same trajectory.
C2_MinEnergySelected ==
    \A d \in DOMAIN fs :
        (Visited(d) /\ GoodFiles(d) # {}) =>
            \E k \in RecordsOf(d) :
                /\ records[k].min_E_ml = Min({fs[d][f].E : f \in GoodFiles(d)})
                /\ \E f \in GoodFiles(d) :
                      /\ records[k].traj_file = PathOf(d, f)
                      /\ fs[d][f].E = records[k].min_E_ml
                      /\ records[k].max_F_ml = Max(Range(fs[d][f].F))

\* Two surviving trajectories of different energies and forces in one directory
C2_Witness ==
    /\ pc = "done"
    /\ \E d \in DOMAIN fs : \E f, g \in GoodFiles(d) :
          /\ fs[d][f].E < fs[d][g].E
          /\ Max(Range(fs[d][f].F)) # Max(Range(fs[d][g].F))
          /\ \E k \in RecordsOf(d) : records[k].traj_file = PathOf(d, f)

\* C3: the table holds exactly one record for each slab directory with a
\* trajectory that passes all four checks and none for a directory without
\* trajectory files or with anomalous ones only; such a directory is skipped
\* without an error, the records of the others being what they are without it.
C3_OneRecordPerValidSlab ==
    /\ pc # "aborted"
    /\ \A d \in DOMAIN fs :
          Visited(d) => Cardinality(RecordsOf(d)) = IF GoodFiles(d) # {} THEN 1 ELSE 0
    /\ pc \in {"post", "done"} =>
          \A k \in 1..Len(records) : \E d \in DOMAIN fs : Visited(d) /\ k \in RecordsOf(d)
    /\ pc = "done" => df_min = records

\* A directory without trajectory files, one with anomalous ones only, or
\* both, beside a directory that has its record
C3_Witness ==
    /\ pc = "done"
    /\ Len(df_min) = 1
    /\ \E d \in DOMAIN fs : TrajFiles(d) # {} /\ GoodFiles(d) = {}
    /\ \E d \in DOMAIN fs : GoodFiles(d) # {}

\* C10: a pass of relaxation and post-processing on an empty output
\* directory, made again with the same inputs and the same generated
\* configurations on an empty directory, gives the same table; a pass on a
\* directory that holds files of an earlier run can give another.
C10_CleanRerunSameTable ==
    (pc = "done" /\ Len(pass) = 2 /\ pass[1].clean /\ pass[2].clean)
        => pass[2].table = pass[1].table

\* The first pass ran on a directory with a stale trajectory, which its
\* table names; the second, on the cleared directory, gives another table
C10_Witness ==
    /\ pc = "done" /\ Len(pass) = 2
    /\ ~pass[1].clean /\ pass[2].clean
    /\ pass[2].table # <<>> /\ pass[1].table # <<>>
    /\ pass[1].table # pass[2].table
    /\ pass[1].table[1].key = pass[2].table[1].key
    /\ pass[1].table[1].min_E_ml < pass[2].table[1].min_E_ml

----------------------------------------------------------------------------
(* One pass of the workflow over an empty output directory *)

RelaxDBs == {<<>>, <<B1>>, <<B2, B1, B3>>}

InitRelax ==
    /\ NearestIdle /\ TileIdle /\ ShiftIdle /\ SiteIdle
    /\ db \in RelaxDBs
    /\ gen = [slabs |-> EmptyFn, configs |-> EmptyFn]
    /\ fs = EmptyFn
    /\ dirScan = DirUniverse
    /\ fileScan = FileUniverse
    /\ pc = "ready"
    /\ bi = 0 /\ si = 0 /\ ci = 0
    /\ runs = EmptyFn
    /\ todo = <<>> /\ records = <<>> /\ df_min = <<>> /\ pass = <<>>

NextRelax ==
    \/ RelaxBegin \/ BulkStep \/ SlabStep \/ ConfigStep
    \/ PostBegin \/ PostSlabDir \/ PostEnd

SpecRelax == InitRelax /\ [][NextRelax]_vars

\* The notebook's cells run one after the other, each statement in its turn
SpecRelaxFair == SpecRelax /\ WF_vars(NextRelax)

\* The (bulk, slab, configuration) triples generated so far
Triples ==
    {t \in (DOMAIN gen.slabs) \X (0..(MaxSlabs + 1)) \X (0..(MaxConfigs + 1)) :
        /\ <<t[1], t[2]>> \in DOMAIN gen.configs
        /\ t[3] < Len(gen.configs[<<t[1], t[2]>>])}
ConfigOf(t) == gen.configs[<<t[1], t[2]>>][t[3] + 1]
Written(t) ==
    LET d == DirName(t[1], t[2])
    IN /\ d \in DOMAIN fs
       /\ TrajName(t[3]) \in DOMAIN fs[d]
       /\ LogName(t[3]) \in DOMAIN fs[d]
LogOf(t) == fs[DirName(t[1], t[2])][LogName(t[3])]
TrajOf(t) == fs[DirName(t[1], t[2])][TrajName(t[3])]

RelaxedOnce ==
    /\ pc # "aborted"
    /\ \A t \in DOMAIN runs : t \in Triples /\ runs[t] = 1
    /\ pc \in {"relaxed", "post", "done"} => DOMAIN runs = Triples
    /\ \A t \in DOMAIN runs :
          /\ Written(t)
          /\ LogOf(t).nsteps <= Steps
          /\ LogOf(t).nsteps = Min({ConfigOf(t).needed, Steps})
          /\ LogOf(t).converged = (ConfigOf(t).needed <= Steps)
          /\ TrajOf(t).E = ConfigOf(t).E
    /\ pc = "done" =>
          \A t \in DOMAIN runs :
              (~LogOf(t).converged /\ ~Flagged(TrajOf(t))) =>
                  \E k \in RecordsOf(DirName(t[1], t[2])) :
                      /\ df_min[k].min_E_ml <= TrajOf(t).E
                      /\ (\A u \in DOMAIN runs :
                             (u[1] = t[1] /\ u[2] = t[2] /\ ~Flagged(TrajOf(u)))
                                 => TrajOf(t).E <= TrajOf(u).E)
                           => df_min[k].min_E_ml = TrajOf(t).E

\* C9: the relaxation driver runs the optimizer exactly once for each
\* (bulk, slab, configuration) triple, each run taking at most 100 steps and
\* leaving its trajectory and log files whether or not it converged; the
\* loops end and the table is built, a non-converged trajectory taking part
\* in the selection like any other.
C9_RelaxOncePerTriple == []RelaxedOnce /\ <>(pc = "done")

\* A run that stopped at the step cap without converging supplies the
\* record of its slab, beside a run that converged before the cap
C9_Witness ==
    /\ pc = "done"
    /\ \E t \in DOMAIN runs :
          /\ LogOf(t).nsteps = Steps /\ ~LogOf(t).converged
          /\ \E k \in 1..Len(df_min) :
                df_min[k].traj_file = PathOf(DirName(t[1], t[2]), TrajName(t[3]))
    /\ \E t \in DOMAIN runs : LogOf(t).nsteps < Steps /\ LogOf(t).converged

----------------------------------------------------------------------------
(* Cell 5: adsorption-site classification of the rows of the table *)

MaxRows == 2
MaxNear == 6

\* Python's None, and a value that is not None
None == [none |-> TRUE]
Some(v) == [none |-> FALSE, val |-> v]

SiteLabels == <<"top", "bridge", "3-fold", "4-fold">>

ClassifyNoDefault(n, default) == IF n \in DOMAIN SiteLabels THEN Some(SiteLabels[n]) ELSE None
\* classify = {1: "top", 2: "bridge", 3: "3-fold", 4: "4-fold"}.get
classify(n, default) == IF n \in DOMAIN SiteLabels THEN Some(SiteLabels[n]) ELSE default

\* The final frame of a trajectory: the atoms' tags and symbols, the lengths
\* of the two in-plane cell vectors, whether get_distances raises, and
\* `close`, which fixes the geometry: how many surface atoms of the tiled
\* slab lie nearest to the adsorbate
Frame(tags, syms, a, b, close, err) ==
    [tags |-> tags, syms |-> syms, a_len |-> a, b_len |-> b, close |-> close, distErr |-> err]

\* atoms.get_distances(ads_i, surf_idx, mic=True) over n surface atoms: the
\* last `close` of them at the least distance, one of those at the edge of
\* the tolerance, the others beyond it; all at distance 0 when close = 0
Geometry(atoms, n) ==
    [j \in 1..n |->
        IF atoms.close = 0 THEN 0
        ELSE IF j <= n - atoms.close THEN 12
        ELSE IF j = n /\ atoms.close >= 2 THEN 11
        ELSE 10]

\* np.where(tags == t)[0]
Where(tags, t) == SelectSeq([k \in 1..Len(tags) |-> k], LAMBDA k : tags[k] = t)

\* tiled[i].symbol: the substrate's atoms repeated, then the adsorbate's
SymbolAt(atoms, ntiled, i) ==
    LET sub == SelectSeq([k \in 1..Len(atoms.tags) |-> k], LAMBDA k : atoms.tags[k] # 2)
        ads == Where(atoms.tags, 2)
        nsub == ntiled - Len(ads)
    IN IF i <= nsub THEN atoms.syms[sub[((i - 1) % Len(sub)) + 1]]
       ELSE atoms.syms[ads[i - nsub]]

Raised == [raised |-> TRUE, site_type |-> None, nearest_atoms |-> None]

\* the try block of site_info: the series it returns, or raised
site_info_body(row) ==
    IF row.traj_file \notin DOMAIN frames THEN Raised
    ELSE LET atoms == frames[row.traj_file]
             tiled == tile_substrate(atoms.tags, atoms.a_len, atoms.b_len, DefaultMinAb)
         IN IF tiled.raised THEN Raised
            ELSE IF Where(tiled.tags, 2) = <<>> THEN Raised
            ELSE IF atoms.distErr THEN Raised
            ELSE LET surf == Where(tiled.tags, 1)
                     near == nearest_idx(Geometry(atoms, Len(surf)), surf, DefaultTolPct)
                 IN [raised |-> FALSE,
                     site_type |-> classify(Len(near), Some("unknown")),
                     nearest_atoms |->
                        IF near # <<>>
                        THEN Some([k \in 1..Len(near) |->
                                      SymbolAt(atoms, Len(tiled.tags), near[k])])
                        ELSE None]

Propagate(r) == r
\* except Exception as err: return pd.Series({"site_type": None, "nearest_atoms": None})
Caught(r) == IF r.raised THEN [raised |-> FALSE, site_type |-> None, nearest_atoms |-> None]
             ELSE r

site_info(row) == Caught(site_info_body(row))

\* a row with the two columns set
WithColumns(row, st, na) ==
    [f \in DOMAIN row \cup {"site_type", "nearest_atoms"} |->
        IF f = "site_type" THEN st ELSE IF f = "nearest_atoms" THEN na ELSE row[f]]

\* df_min.apply(site_info, axis=1), one row at a time
SiteApplyRow ==
    /\ pc = "site"
    /\ site_i < Len(df_min)
    /\ \E r \in {site_info(df_min[site_i + 1])} :
          IF r.raised
          THEN pc' = "aborted" /\ UNCHANGED <<site_i, site_res>>
          ELSE /\ site_res' = Append(site_res, [site_type |-> r.site_type,
                                                nearest_atoms |-> r.nearest_atoms])
               /\ site_i' = site_i + 1
               /\ UNCHANGED pc
    /\ UNCHANGED <<pureVars, wfVars, df_min, frames>>

\* df_min[["site_type", "nearest_atoms"]] = ...
SiteAssign ==
    /\ pc = "site"
    /\ site_i = Len(df_min)
    /\ df_min' = [k \in 1..Len(df_min) |->
                    WithColumns(df_min[k], site_res[k].site_type, site_res[k].nearest_atoms)]
    /\ pc' = "sited"
    /\ UNCHANGED <<pureVars, wfVars, siteVars>>

\* The rows of the table and the final frames their trajectory files hold
RowFor(k) ==
    [key |-> B1 \o <<"_", "H", "_">> \o str(k - 1) \o <<"_">> \o orient_tag,
     bulk_id |-> B1, slab_index |-> k - 1, orientation |-> orient_tag, adsorbate |-> "H",
     min_E_ml |-> -12, max_F_ml |-> 4,
     traj_file |-> PathOf(DirName(B1, k - 1), TrajName(0))]

Missing == [missing |-> TRUE]
SlabSyms == <<"Pt", "Ni", "Cu", "H">>
SiteCells == {<<8, 8>>, <<4, 8>>, <<3, 4>>}
SiteFrames ==
    {Frame(<<0, 1, 1, 2>>, SlabSyms, c[1], c[2], n, FALSE) : c \in SiteCells, n \in 0..MaxNear}
    \cup {Frame(<<0, 1, 1, 2>>, SlabSyms, 0, 8, 1, FALSE),
          Frame(<<0, 1, 1, 0>>, SlabSyms, 8, 8, 1, FALSE),
          Frame(<<0, 0, 2, 0>>, SlabSyms, 8, 8, 1, FALSE),
          Frame(<<2, 1, 0, 2>>, SlabSyms, 8, 4, 1, FALSE),
          Frame(<<0, 1, 1, 2>>, SlabSyms, 8, 8, 1, TRUE)}

InitSite ==
    /\ NearestIdle /\ TileIdle /\ ShiftIdle
    /\ db = <<>> /\ gen = [slabs |-> EmptyFn, configs |-> EmptyFn]
    /\ fs = EmptyFn /\ dirScan = <<>> /\ fileScan = <<>>
    /\ bi = 0 /\ si = 0 /\ ci = 0 /\ runs = EmptyFn
    /\ todo = <<>> /\ pass = <<>>
    /\ \E n \in 1..MaxRows : \E f \in [1..n -> SiteFrames \cup {Missing}] :
          /\ records = [k \in 1..n |-> RowFor(k)]
          /\ frames = [q \in {RowFor(k).traj_file : k \in {m \in 1..n : f[m] # Missing}} |->
                          f[CHOOSE k \in 1..n : RowFor(k).traj_file = q]]
    /\ df_min = records
    /\ pc = "site"
    /\ site_i = 0 /\ site_res = <<>>

NextSite == SiteApplyRow \/ SiteAssign

SpecSite == InitSite /\ [][NextSite]_vars

\* What a row's file holds, stated without site_info
Readable(row) == row.traj_file \in DOMAIN frames
FrameOf(row) == frames[row.traj_file]
Fails(row) ==
    \/ ~Readable(row)
    \/ FrameOf(row).a_len = 0 \/ FrameOf(row).b_len = 0
    \/ \A k \in 1..Len(FrameOf(row).tags) : FrameOf(row).tags[k] # 2
    \/ FrameOf(row).distErr
\* the number of surface atoms of the tiled slab
SurfCount(row) ==
    (CHOOSE n \in 1..DefaultMinAb : LeastFactor(n, FrameOf(row).a_len, DefaultMinAb))
        * (CHOOSE n \in 1..DefaultMinAb : LeastFactor(n, FrameOf(row).b_len, DefaultMinAb))
        * CountTag(FrameOf(row).tags, 1)
\* the cardinality of the coordination set
CoordCount(row) ==
    LET d == Geometry(FrameOf(row), SurfCount(row))
        pos == {j \in 1..SurfCount(row) : d[j] > 0}
    IN Cardinality({j \in pos : \A m \in pos : 100 * d[j] <= (100 + DefaultTolPct) * d[m]})
LabelOf(n) ==
    CASE n = 1 -> "top" [] n = 2 -> "bridge" [] n = 3 -> "3-fold" [] n = 4 -> "4-fold"
      [] OTHER -> "unknown"

\* C4: a failure while a row is processed (its file cannot be read, the
\* tiling fails, there is no adsorbate atom, the distances cannot be
\* computed) never aborts the batch: that row gets site_type None and
\* nearest_atoms None, every other row gets the classification of its own
\* file, and the table keeps its rows.
C4_RowFailureIsolated ==
    /\ pc # "aborted"
    /\ \A k \in 1..Len(site_res) :
          IF Fails(records[k])
          THEN site_res[k] = [site_type |-> None, nearest_atoms |-> None]
          ELSE /\ site_res[k].site_type = Some(LabelOf(CoordCount(records[k])))
               /\ site_res[k].nearest_atoms.none = (CoordCount(records[k]) = 0)
    /\ pc = "sited" =>
          /\ Len(df_min) = Len(records)
          /\ \A k \in 1..Len(df_min) :
                /\ \A c \in DOMAIN records[k] : df_min[k][c] = records[k][c]
                /\ df_min[k].site_type = site_res[k].site_type
                /\ df_min[k].nearest_atoms = site_res[k].nearest_atoms

\* A row that failed, followed by a row that is classified
C4_Witness ==
    /\ pc = "sited"
    /\ \E k, m \in 1..Len(df_min) :
          /\ k < m
          /\ Fails(records[k]) /\ df_min[k].site_type = None
          /\ ~Fails(records[m]) /\ df_min[m].site_type = Some("bridge")

\* C6: the site type of a row that is classified is decided by the
\* cardinality n of its coordination set alone: top, bridge, 3-fold, 4-fold
\* for n = 1, 2, 3, 4 and unknown for every other n; with an empty
\* coordination set site_type is "unknown", not None, and nearest_atoms is None.
C6_SiteTypeByCardinality ==
    \A k \in 1..Len(site_res) :
        ~Fails(records[k]) =>
            LET n == CoordCount(records[k])
            IN /\ n = 1 => site_res[k].site_type = Some("top")
               /\ n = 2 => site_res[k].site_type = Some("bridge")
               /\ n = 3 => site_res[k].site_type = Some("3-fold")
               /\ n = 4 => site_res[k].site_type = Some("4-fold")
               /\ n \notin 1..4 => site_res[k].site_type = Some("unknown")
               /\ n = 0 => site_res[k].nearest_atoms = None
               /\ n > 0 => /\ ~site_res[k].nearest_atoms.none
                           /\ Len(site_res[k].nearest_atoms.val) = n
               /\ \A m \in 1..Len(site_res) :
                     (~Fails(records[m]) /\ CoordCount(records[m]) = n)
                         => site_res[m].site_type = site_res[k].site_type

\* An empty coordination set beside one of more than four atoms
C6_Witness ==
    /\ pc = "sited"
    /\ \E k, m \in 1..Len(df_min) :
          /\ ~Fails(records[k]) /\ CoordCount(records[k]) = 0
          /\ df_min[k].site_type = Some("unknown") /\ df_min[k].nearest_atoms = None
          /\ ~Fails(records[m]) /\ CoordCount(records[m]) > 4
          /\ df_min[m].site_type = Some("unknown") /\ ~df_min[m].nearest_atoms.none

====
